---- MODULE Spec2Model ----
(***************************************************************************)
(* A model of split.py: the orchestration loop of main (kind resolution,   *)
(* unique-name check, statistics buckets, split cache, extraction, symbol  *)
(* accumulators, post-processing, exports, cache persistence) and the      *)
(* linker-script renderer write_ldscript.                                  *)
(***************************************************************************)
EXTENDS Integers, Sequences, FiniteSets, TLC

(* ------------------------------ bounds -------------------------------- *)

\* number of real (non-sentinel) declarations in config['segments']
MaxSegs == 2
\* largest rom_length of one region
MaxLen == 1
\* len(rom_bytes)
RomSize == 1
\* number of consecutive invocations of main on the same output tree
MaxRuns == 2
\* number of distinct function names the code regions emit or request
MaxFuncs == 1
\* number of distinct explicit region names
MaxNames == 2
\* longest descriptor list handed to write_ldscript on its own
MaxSections == 3

(* ------------------------------ inputs -------------------------------- *)

NameTable == <<"a", "b", "c", "d">>
SegNames == {NameTable[k] : k \in 1..MaxNames}

\* function names, in Python's string order
FuncTable == <<"func_80001000", "func_80002000", "func_80003000">>
FuncNames == {FuncTable[k] : k \in 1..MaxFuncs}
FuncIndex(n) == CHOOSE k \in 1..Len(FuncTable) : FuncTable[k] = n

\* data symbol names, in Python's string order; function k reads symbol k
SymTable == <<"D_80100000", "D_80200000", "D_80300000">>

Lens == 0..MaxLen

\* "code" and "bin" have a module under segtypes; "ext" has none and is
\* looked up in the extension directory
BuiltinKinds == {"code", "bin"}
Kinds == BuiltinKinds \cup {"ext"}

\* the --modes values the runs are started with
ModeSets == {{"all"}, {"code"}, {"bin", "ld"}}

\* what the lookup of ext.py in the extension directory meets
ExtStatuses == {"nodir", "nofile", "raises", "noattr", "ok"}

\* the name a region gets when its declaration gives none
AutoName == "auto"

\* A constructed region: what main reads from the segment object.
\*   type, name, len                  type, name, rom_length
\*   dflt                             is_name_default()
\*   defs, calls                      glabels_added, glabels_to_add after
\*                                    split(); undefined_syms_to_add follows
\*                                    from defs (undefined_syms_to_add below)
CodeRegions ==
    [type : {"code"}, name : SegNames, dflt : {FALSE}, len : Lens,
     defs : SUBSET FuncNames, calls : SUBSET FuncNames]
BinRegions ==
    [type : {"bin"}, name : SegNames, dflt : {FALSE}, len : Lens,
     defs : {{}}, calls : {{}}]
    \cup
    [type : {"bin"}, name : {AutoName}, dflt : {TRUE}, len : Lens,
     defs : {{}}, calls : {{}}]
ExtRegions ==
    [type : {"ext"}, name : {NameTable[1]}, dflt : {FALSE}, len : {0},
     defs : {{}}, calls : {{}}]
Regions == CodeRegions \cup BinRegions \cup ExtRegions

\* the manual function list after gather_c_funcs: address -> name
\* (funcs[addr] = name); the address of FuncTable[k] is written k here
CFuncChoices ==
    {[a \in S |-> FuncTable[a]] : S \in SUBSET (1..MaxFuncs)}

(* ------------------------------ state --------------------------------- *)

VARIABLES
    \* configuration and environment
    segs,               \* config['segments'] without the closing sentinel
    c_funcs,            \* gather_c_funcs(repo_path)[0]
    ext_status,         \* state of the extension directory
    stamp,              \* per region: version of the files its fingerprint reads
    \* files of the output tree
    store,              \* .splat_cache: [present, map]
    ld_file,            \* <basename>.ld: [present, text]
    funcs_file,         \* undefined_funcs_auto.txt: [present, lines]
    syms_file,          \* undefined_syms_auto.txt: [present, lines]
    \* arguments of the current call of main, and the cache as it loaded
    run, modes, ignore_cache, loaded_cache,
    \* locals of main
    pc, i, j,
    ran_segments, ld_sections, seen_segment_names,
    defined_funcs, undefined_funcs, undefined_syms,
    seg_sizes, seg_split, seg_cached,
    cache,
    \* observation of the current run
    fate,               \* per region: what the loop did with it
    cache_calls,        \* the regions whose cache() was called
    postsplit_calls,    \* the calls segment.postsplit(ran_segments), in order
    written,            \* the files this run has written
    ld_bare,            \* options.get("ld_bare", False) as read at line 270
    \* observation of the previous run
    prev,
    \* write_ldscript on its own
    ld_in, ld_out,
    \* the line format of undefined_funcs_auto.txt on its own
    name_in, line_out

cfgvars == <<segs, c_funcs, ext_status, stamp>>
filevars == <<store, ld_file, funcs_file, syms_file>>
runvars == <<run, modes, ignore_cache, loaded_cache>>
accvars == <<defined_funcs, undefined_funcs, undefined_syms>>
statvars == <<seg_sizes, seg_split, seg_cached>>
ldvars == <<ld_in, ld_out>>
fmtvars == <<name_in, line_out>>
vars == <<segs, c_funcs, ext_status, stamp, store, ld_file, funcs_file,
          syms_file, run, modes, ignore_cache, loaded_cache, pc, i, j, ran_segments,
          ld_sections, seen_segment_names, defined_funcs, undefined_funcs,
          undefined_syms, seg_sizes, seg_split, seg_cached, cache, fate,
          cache_calls, postsplit_calls, written, ld_bare, prev, ld_in, ld_out,
          name_in, line_out>>

(* ------------------------- write_ldscript ----------------------------- *)

\* Text is a sequence of one-character strings.
NL == "\n"
SP == " "
Indent4 == <<SP, SP, SP, SP>>

\* the descriptors write_ldscript is applied to on its own
Descriptors ==
    {<<"A">>, <<"B">>, <<"C">>, <<"A", NL, "B">>, <<"A", NL>>}

\* sep.join(xs)
RECURSIVE join(_, _)
join(sep, xs) ==
    IF xs = <<>> THEN <<>>
    ELSE IF Len(xs) = 1 THEN xs[1]
    ELSE xs[1] \o sep \o join(sep, Tail(xs))

\* s.replace("\n", "\n    ")
RECURSIVE replace_nl(_)
replace_nl(s) ==
    IF s = <<>> THEN <<>>
    ELSE (IF Head(s) = NL THEN <<NL>> \o Indent4 ELSE <<Head(s)>>)
         \o replace_nl(Tail(s))

\* s[:-4]
drop_last4(s) == IF Len(s) <= 4 THEN <<>> ELSE SubSeq(s, 1, Len(s) - 4)

\* the text write_ldscript(rom_name, repo_path, sections, bare) writes
write_ldscript(sections, bare) ==
    IF bare
    THEN join(<<NL>>, sections)
    ELSE <<"S", "E", "C", "T", "I", "O", "N", "S", NL, "{", NL>> \o Indent4
         \o drop_last4(join(<<NL>> \o Indent4,
                            [k \in 1..Len(sections) |-> replace_nl(sections[k])]))
         \o <<"}", NL>>

(* ------------------------- region handlers ---------------------------- *)

NumSegs == Len(segs)

\* start offset of declaration k: the regions are contiguous from offset 0
RECURSIVE rom_start(_)
rom_start(k) == IF k <= 1 THEN 0 ELSE rom_start(k - 1) + segs[k - 1].len

\* end offset of declaration k: the start of declaration k + 1
rom_end(k) == rom_start(k) + segs[k].len

\* segment.unique_id(): kind, name and address
unique_id(k) == <<segs[k].type, segs[k].name, rom_start(k)>>

\* segment.cache(): the resolved configuration and the version of the
\* external files the region depends on
fingerprint(k) == <<segs[k], rom_end(k), stamp[k]>>

\* segment.undefined_syms_to_add after split(): the data symbols the
\* functions the region emits read
undefined_syms_to_add(k) ==
    {SymTable[m] : m \in {FuncIndex(n) : n \in segs[k].defs}}

\* segment.should_run(): the mode filter names the kind, or "all"
should_run(k) == "all" \in modes \/ segs[k].type \in modes

\* segment_class.require_unique_name
require_unique_name(kind) == kind \in {"code", "ext"}

\* segment.get_ld_section(): one single-line descriptor per region
LetterTable == <<"A", "B", "C", "D", "E">>
get_ld_section(k) == <<LetterTable[k]>>

\* get_base_segment_class(seg_type): the handler class, or None
get_base_segment_class(kind) ==
    IF kind \in BuiltinKinds THEN kind ELSE "None"

\* get_extension_class(options, config_path, seg_type): the handler class,
\* None, or the AttributeError of the getattr at line 138
get_extension_class(kind) ==
    CASE ext_status = "nodir" -> "None"
      [] ext_status \in {"nofile", "raises"} -> "None"
      [] ext_status = "noattr" -> "AttributeError"
      [] OTHER -> kind

\* segment_class after lines 196-199
segment_class(k) ==
    IF get_base_segment_class(segs[k].type) # "None"
    THEN get_base_segment_class(segs[k].type)
    ELSE get_extension_class(segs[k].type)

\* type(segment) == N64SegCode
is_code(k) == segment_class(k) = "code"

\* line 214: segment.all_functions is the set object defined_funcs itself
all_functions == defined_funcs

(* ----------------------------- dicts ---------------------------------- *)

EmptyDict == [x \in {} |-> 0]
DictSet(d, k, v) == [x \in (DOMAIN d) \cup {k} |-> IF x = k THEN v ELSE d[x]]
DictHas(d, k) == k \in DOMAIN d

(* ------------------------- main: start of a run ----------------------- *)

NoFile == [present |-> FALSE, text |-> <<>>]
NoStore == [present |-> FALSE, map |-> EmptyDict]
NoPrev == [outcome |-> "none", modes |-> {}, wrote_cache |-> FALSE,
           stamp |-> <<>>, fate |-> <<>>, segs |-> <<>>, ext_status |-> "nodir",
           store |-> NoStore, run |-> 0, ran_segments |-> <<>>,
           ld_sections |-> <<>>, defined_funcs |-> {},
           undefined_funcs |-> {}, undefined_syms |-> {}]

\* before the first run: an empty output tree, nothing run yet
Idle ==
    /\ stamp = [k \in 1..MaxSegs |-> 0]
    /\ store = NoStore
    /\ ld_file = NoFile
    /\ funcs_file = NoFile
    /\ syms_file = NoFile
    /\ run = 0
    /\ modes = {}
    /\ ignore_cache = FALSE
    /\ loaded_cache = EmptyDict
    /\ pc = "idle"
    /\ i = 0
    /\ j = 0
    /\ ran_segments = <<>>
    /\ ld_sections = <<>>
    /\ seen_segment_names = {}
    /\ defined_funcs = {}
    /\ undefined_funcs = {}
    /\ undefined_syms = {}
    /\ seg_sizes = EmptyDict
    /\ seg_split = EmptyDict
    /\ seg_cached = EmptyDict
    /\ cache = EmptyDict
    /\ fate = [k \in 1..MaxSegs |-> "pending"]
    /\ cache_calls = {}
    /\ postsplit_calls = <<>>
    /\ written = {}
    /\ ld_bare = FALSE
    /\ prev = NoPrev
    /\ ld_in = <<>>
    /\ ld_out = NoFile
    /\ name_in = <<>>
    /\ line_out = NoFile

\* any declaration list, manual function list and extension directory
Init ==
    /\ segs \in [1..MaxSegs -> Regions]
    /\ c_funcs \in CFuncChoices
    /\ ext_status \in ExtStatuses
    /\ (\A k \in 1..MaxSegs : segs[k].type # "ext") => ext_status = "nodir"
    /\ (\A k \in 1..MaxSegs : segs[k].calls = {}) => c_funcs = EmptyDict
    /\ Idle

\* the run has ended: normally, by exit(1), or by an uncaught exception
Ended == pc \in {"done", "aborted", "crashed"}

\* the stored map is never read back
load_cache_never == EmptyDict

\* lines 180-186: the cache is the stored map, or {} when it cannot be read
load_cache == IF store.present THEN store.map ELSE EmptyDict

\* main(rom_path, config_path, repo_path, modes, verbose, ignore_cache),
\* lines 150-186, on the output tree the earlier runs left; between two
\* runs either the configuration has changed (its last declaration was
\* removed) or the environment has (the files one region's fingerprint
\* reads, the extension directory)
StartRun(m, ic, touched, drop, es) ==
    /\ pc = "idle" \/ Ended
    /\ run < MaxRuns
    /\ pc = "idle" => (touched = 0 /\ ~drop /\ es = ext_status)
    /\ drop => (Len(segs) > 1 /\ touched = 0 /\ es = ext_status)
    /\ segs' = IF drop THEN SubSeq(segs, 1, Len(segs) - 1) ELSE segs
    /\ touched <= Len(segs')
    /\ (\A k \in DOMAIN segs' : segs'[k].type # "ext") => es = ext_status
    /\ ext_status' = es
    /\ run' = run + 1
    /\ modes' = m
    /\ ignore_cache' = ic
    /\ stamp' = [k \in DOMAIN stamp |->
                    IF k = touched THEN stamp[k] + 1 ELSE stamp[k]]
    /\ prev' = IF pc = "idle" THEN NoPrev
               ELSE [outcome |-> pc, modes |-> modes,
                     wrote_cache |-> "cache" \in written,
                     stamp |-> stamp, fate |-> fate, segs |-> segs,
                     ext_status |-> ext_status, store |-> store,
                     run |-> run, ran_segments |-> ran_segments,
                     ld_sections |-> ld_sections,
                     defined_funcs |-> defined_funcs,
                     undefined_funcs |-> undefined_funcs,
                     undefined_syms |-> undefined_syms]
    /\ ran_segments' = <<>>
    /\ ld_sections' = <<>>
    /\ seen_segment_names' = {}
    /\ defined_funcs' = {}
    /\ undefined_funcs' = {}
    /\ undefined_syms' = {}
    /\ seg_sizes' = EmptyDict
    /\ seg_split' = EmptyDict
    /\ seg_cached' = EmptyDict
    /\ cache' = load_cache
    /\ loaded_cache' = load_cache
    /\ fate' = [k \in DOMAIN fate |-> "pending"]
    /\ cache_calls' = {}
    /\ postsplit_calls' = <<>>
    /\ written' = {}
    /\ ld_bare' = FALSE
    /\ pc' = "loop"
    /\ i' = 1
    /\ j' = 0
    /\ UNCHANGED <<c_funcs, filevars, ldvars, fmtvars>>

(* ------------------------- main: the loop ----------------------------- *)

\* lines 196-203: a handler class was found for declaration k
resolved(k) == segment_class(k) \notin {"None", "AttributeError"}

\* the name check made for every kind
is_duplicate_any_kind(k) == segs[k].name \in seen_segment_names

\* lines 207-208: the name of a kind that requires uniqueness was seen before
is_duplicate(k) ==
    /\ require_unique_name(segment_class(k))
    /\ segs[k].name \in seen_segment_names

\* line 211
seen_after(k) ==
    IF require_unique_name(segment_class(k))
    THEN seen_segment_names \cup {segs[k].name}
    ELSE seen_segment_names

\* lines 223-225: the statistics bucket of region k
bucket(k) ==
    IF segs[k].type = "bin" /\ segs[k].dflt THEN "unk" ELSE segs[k].type

\* lines 227-230: a bucket seen for the first time starts at 0
with_bucket(d, tp) == IF DictHas(d, tp) THEN d ELSE DictSet(d, tp, 0)

\* d[tp] += n, on a dict that holds tp
dict_add(d, tp, n) == DictSet(d, tp, d[tp] + n)

\* the length counted only for the regions that run
sizes_after_runnable_only(k) ==
    IF should_run(k)
    THEN dict_add(with_bucket(seg_sizes, bucket(k)), bucket(k), segs[k].len)
    ELSE with_bucket(seg_sizes, bucket(k))

\* lines 227-231
sizes_after(k) ==
    dict_add(with_bucket(seg_sizes, bucket(k)), bucket(k), segs[k].len)

\* the force flag inverted
is_cached_inverted(k) ==
    /\ ignore_cache
    /\ DictHas(cache, unique_id(k))
    /\ cache[unique_id(k)] = fingerprint(k)

\* the force flag is not looked at
is_cached_unforced(k) ==
    /\ DictHas(cache, unique_id(k))
    /\ cache[unique_id(k)] = fingerprint(k)

\* line 236: not ignore_cache and cached == cache.get(segment.unique_id());
\* cache.get gives None for a missing key, which no fingerprint equals
is_cached(k) ==
    /\ ~ignore_cache
    /\ DictHas(cache, unique_id(k))
    /\ cache[unique_id(k)] = fingerprint(k)

\* the map is rebuilt from the region alone
cache_after_pruned(k) == DictSet(EmptyDict, unique_id(k), fingerprint(k))

\* line 241
cache_after(k) == DictSet(cache, unique_id(k), fingerprint(k))

\* the names the region emits are not folded in
defined_after_dropped(k) == defined_funcs

\* the names the region emits replace the set
defined_after_replaced(k) ==
    IF is_code(k) THEN segs[k].defs ELSE defined_funcs

\* lines 249-252: the accumulators after region k was split
defined_after(k) ==
    IF is_code(k) THEN defined_funcs \cup segs[k].defs ELSE defined_funcs

\* the names the region requests are not folded in
undefined_funcs_after_dropped(k) == undefined_funcs

\* line 251
undefined_funcs_after(k) ==
    IF is_code(k) THEN undefined_funcs \cup segs[k].calls ELSE undefined_funcs

\* line 252
undefined_syms_after(k) ==
    IF is_code(k) THEN undefined_syms \cup undefined_syms_to_add(k)
    ELSE undefined_syms

\* the loop is at declaration k, a real region
AtRegion(k) == pc = "loop" /\ i = k /\ k \in 1..NumSegs

\* declaration k passed lines 194-221: class found, name accepted, check()
Accepted(k) == AtRegion(k) /\ resolved(k) /\ ~is_duplicate(k)

\* lines 190-192: the closing sentinel is skipped and the loop ends
LoopSentinel ==
    /\ pc = "loop"
    /\ i = NumSegs + 1
    /\ pc' = "post"
    /\ j' = 1
    /\ UNCHANGED <<cfgvars, filevars, runvars, i, ran_segments, ld_sections,
                   seen_segment_names, accvars, statvars, cache, fate,
                   cache_calls, postsplit_calls, written, ld_bare, prev, ldvars, fmtvars>>

\* lines 201-203: no built-in and no extension handler: exit(1)
LoopKindError ==
    /\ AtRegion(i)
    /\ segment_class(i) = "None"
    /\ pc' = "aborted"
    /\ fate' = [fate EXCEPT ![i] = "nokind"]
    /\ UNCHANGED <<cfgvars, filevars, runvars, i, j, ran_segments, ld_sections,
                   seen_segment_names, accvars, statvars, cache,
                   cache_calls, postsplit_calls, written, ld_bare, prev, ldvars, fmtvars>>

\* line 138: the extension module loads but does not define the class:
\* getattr raises AttributeError, which nothing catches
LoopExtCrash ==
    /\ AtRegion(i)
    /\ segment_class(i) = "AttributeError"
    /\ pc' = "crashed"
    /\ fate' = [fate EXCEPT ![i] = "crash"]
    /\ UNCHANGED <<cfgvars, filevars, runvars, i, j, ran_segments, ld_sections,
                   seen_segment_names, accvars, statvars, cache,
                   cache_calls, postsplit_calls, written, ld_bare, prev, ldvars, fmtvars>>

\* the abort path saves the in-memory map before it exits
LoopDuplicate_SavesCache ==
    /\ AtRegion(i)
    /\ resolved(i)
    /\ is_duplicate(i)
    /\ pc' = "aborted"
    /\ fate' = [fate EXCEPT ![i] = "duplicate"]
    /\ store' = [present |-> TRUE, map |-> cache]
    /\ UNCHANGED <<cfgvars, ld_file, funcs_file, syms_file, runvars, i, j,
                   ran_segments, ld_sections, seen_segment_names, accvars,
                   statvars, cache, cache_calls, postsplit_calls, written,
                   ld_bare, prev, ldvars, fmtvars>>

\* lines 207-210: the name is not unique: exit(1)
LoopDuplicate ==
    /\ AtRegion(i)
    /\ resolved(i)
    /\ is_duplicate(i)
    /\ pc' = "aborted"
    /\ fate' = [fate EXCEPT ![i] = "duplicate"]
    /\ UNCHANGED <<cfgvars, filevars, runvars, i, j, ran_segments, ld_sections,
                   seen_segment_names, accvars, statvars, cache,
                   cache_calls, postsplit_calls, written, ld_bare, prev, ldvars, fmtvars>>

\* a region excluded by the mode filter leaves the loop like a cache hit
LoopModeSkip_NoSection ==
    /\ Accepted(i)
    /\ ~should_run(i)
    /\ seen_segment_names' = seen_after(i)
    /\ seg_sizes' = sizes_after(i)
    /\ seg_split' = with_bucket(seg_split, bucket(i))
    /\ seg_cached' = with_bucket(seg_cached, bucket(i))
    /\ fate' = [fate EXCEPT ![i] = "modeskip"]
    /\ i' = i + 1
    /\ UNCHANGED <<cfgvars, filevars, runvars, pc, j, ran_segments, accvars,
                   ld_sections, cache, cache_calls, postsplit_calls, written,
                   ld_bare, prev, ldvars, fmtvars>>

\* a region excluded by the mode filter is counted as cached
LoopModeSkip_CountedAsCached ==
    /\ Accepted(i)
    /\ ~should_run(i)
    /\ seen_segment_names' = seen_after(i)
    /\ seg_sizes' = sizes_after(i)
    /\ seg_split' = with_bucket(seg_split, bucket(i))
    /\ seg_cached' = dict_add(with_bucket(seg_cached, bucket(i)), bucket(i), 1)
    /\ ld_sections' = Append(ld_sections, get_ld_section(i))
    /\ fate' = [fate EXCEPT ![i] = "modeskip"]
    /\ i' = i + 1
    /\ UNCHANGED <<cfgvars, filevars, runvars, pc, j, ran_segments, accvars,
                   cache, cache_calls, postsplit_calls, written, ld_bare,
                   prev, ldvars, fmtvars>>

\* lines 205-233 and 261: should_run() is false
LoopModeSkip ==
    /\ Accepted(i)
    /\ ~should_run(i)
    /\ seen_segment_names' = seen_after(i)
    /\ seg_sizes' = sizes_after(i)
    /\ seg_split' = with_bucket(seg_split, bucket(i))
    /\ seg_cached' = with_bucket(seg_cached, bucket(i))
    /\ ld_sections' = Append(ld_sections, get_ld_section(i))
    /\ fate' = [fate EXCEPT ![i] = "modeskip"]
    /\ i' = i + 1
    /\ UNCHANGED <<cfgvars, filevars, runvars, pc, j, ran_segments, accvars,
                   cache, cache_calls, postsplit_calls, written, ld_bare,
                   prev, ldvars, fmtvars>>

\* a cache hit is counted with the regions that were split
LoopCacheHit_CountedAsSplit ==
    /\ Accepted(i)
    /\ should_run(i)
    /\ is_cached(i)
    /\ seen_segment_names' = seen_after(i)
    /\ seg_sizes' = sizes_after(i)
    /\ seg_split' = dict_add(with_bucket(seg_split, bucket(i)), bucket(i), 1)
    /\ seg_cached' = with_bucket(seg_cached, bucket(i))
    /\ cache_calls' = cache_calls \cup {i}
    /\ fate' = [fate EXCEPT ![i] = "hit"]
    /\ i' = i + 1
    /\ UNCHANGED <<cfgvars, filevars, runvars, pc, j, ran_segments,
                   ld_sections, accvars, cache, postsplit_calls, written,
                   ld_bare, prev, ldvars, fmtvars>>

\* lines 205-240: the stored fingerprint equals the fresh one: continue
LoopCacheHit ==
    /\ Accepted(i)
    /\ should_run(i)
    /\ is_cached(i)
    /\ seen_segment_names' = seen_after(i)
    /\ seg_sizes' = sizes_after(i)
    /\ seg_split' = with_bucket(seg_split, bucket(i))
    /\ seg_cached' = dict_add(with_bucket(seg_cached, bucket(i)), bucket(i), 1)
    /\ cache_calls' = cache_calls \cup {i}
    /\ fate' = [fate EXCEPT ![i] = "hit"]
    /\ i' = i + 1
    /\ UNCHANGED <<cfgvars, filevars, runvars, pc, j, ran_segments,
                   ld_sections, accvars, cache, postsplit_calls, written,
                   ld_bare, prev, ldvars, fmtvars>>

\* lines 205-261: the region is split
LoopExtract ==
    /\ Accepted(i)
    /\ should_run(i)
    /\ ~is_cached(i)
    /\ seen_segment_names' = seen_after(i)
    /\ seg_sizes' = sizes_after(i)
    /\ seg_split' = dict_add(with_bucket(seg_split, bucket(i)), bucket(i), 1)
    /\ seg_cached' = with_bucket(seg_cached, bucket(i))
    /\ cache_calls' = cache_calls \cup {i}
    /\ cache' = cache_after(i)
    /\ ran_segments' = Append(ran_segments, i)
    /\ defined_funcs' = defined_after(i)
    /\ undefined_funcs' = undefined_funcs_after(i)
    /\ undefined_syms' = undefined_syms_after(i)
    /\ ld_sections' = Append(ld_sections, get_ld_section(i))
    /\ fate' = [fate EXCEPT ![i] = "extracted"]
    /\ i' = i + 1
    /\ UNCHANGED <<cfgvars, filevars, runvars, pc, j, postsplit_calls,
                   written, ld_bare, prev, ldvars, fmtvars>>

(* ------------------------- main: after the loop ----------------------- *)

\* each region is handed the regions up to itself only
PostSplit_PrefixOnly ==
    /\ pc = "post"
    /\ j <= Len(ran_segments)
    /\ postsplit_calls' =
           Append(postsplit_calls,
                  [seg |-> ran_segments[j], arg |-> SubSeq(ran_segments, 1, j)])
    /\ j' = j + 1
    /\ UNCHANGED <<cfgvars, filevars, runvars, pc, i, ran_segments, ld_sections,
                   seen_segment_names, accvars, statvars, cache, fate,
                   cache_calls, written, ld_bare, prev, ldvars, fmtvars>>

\* lines 263-264: segment.postsplit(ran_segments) for the next region that ran
PostSplit ==
    /\ pc = "post"
    /\ j <= Len(ran_segments)
    /\ postsplit_calls' =
           Append(postsplit_calls, [seg |-> ran_segments[j], arg |-> ran_segments])
    /\ j' = j + 1
    /\ UNCHANGED <<cfgvars, filevars, runvars, pc, i, ran_segments, ld_sections,
                   seen_segment_names, accvars, statvars, cache, fate,
                   cache_calls, written, ld_bare, prev, ldvars, fmtvars>>

\* line 267
writes_ld == "ld" \in modes \/ "all" \in modes

\* Python values: a str and an int are never equal
PyStr(x) == <<"str", x>>
PyInt(n) == <<"int", n>>
py_eq(x, y) == x[1] = y[1] /\ x[2] = y[2]

\* S - T on Python sets
py_minus(S, T) == {x \in S : ~(\E y \in T : py_eq(x, y))}

\* line 273: set(c_funcs.keys()), the keys of the address -> name map
c_predefined_funcs == {PyInt(a) : a \in DOMAIN c_funcs}

\* sorted(S) for names of a table that is in string order
sorted_names(S, table) ==
    LET F[k \in 0..Len(table)] ==
            IF k = 0 THEN <<>>
            ELSE IF table[k] \in S THEN Append(F[k - 1], table[k])
            ELSE F[k - 1]
    IN  F[Len(table)]

\* the defined names are not subtracted
to_write_funcs_keeps_defined ==
    LET left == py_minus({PyStr(n) : n \in undefined_funcs}, c_predefined_funcs)
    IN  sorted_names({x[2] : x \in left}, FuncTable)

\* line 274: sorted(undefined_funcs - defined_funcs - c_predefined_funcs)
to_write_funcs ==
    LET left == py_minus(py_minus({PyStr(n) : n \in undefined_funcs},
                                  {PyStr(n) : n \in defined_funcs}),
                         c_predefined_funcs)
    IN  sorted_names({x[2] : x \in left}, FuncTable)

\* line 281: sorted(undefined_syms)
to_write_syms == sorted_names(undefined_syms, SymTable)

\* options.get("ld_bare", False): the configuration sets no ld_bare
LdBareOptions == {FALSE}

\* lines 266-285: the linker script and the two exports; a file is left as
\* it was when the run has nothing to write to it
WriteOutputs(bare) ==
    /\ pc = "post"
    /\ j > Len(ran_segments)
    /\ ld_bare' = bare
    /\ ld_file' = IF writes_ld
                  THEN [present |-> TRUE, text |-> write_ldscript(ld_sections, bare)]
                  ELSE ld_file
    /\ funcs_file' = IF to_write_funcs # <<>>
                     THEN [present |-> TRUE, text |-> to_write_funcs]
                     ELSE funcs_file
    /\ syms_file' = IF to_write_syms # <<>>
                    THEN [present |-> TRUE, text |-> to_write_syms]
                    ELSE syms_file
    /\ written' = written
                    \cup (IF writes_ld THEN {"ld"} ELSE {})
                    \cup (IF to_write_funcs # <<>> THEN {"funcs"} ELSE {})
                    \cup (IF to_write_syms # <<>> THEN {"syms"} ELSE {})
    /\ pc' = "stats"
    /\ UNCHANGED <<cfgvars, store, runvars, i, j, ran_segments, ld_sections,
                   seen_segment_names, accvars, statvars, cache, fate,
                   cache_calls, postsplit_calls, prev, ldvars, fmtvars>>

\* sum of d over the keys in S
RECURSIVE dict_sum(_, _)
dict_sum(d, S) ==
    IF S = {} THEN 0
    ELSE LET k == CHOOSE x \in S : TRUE
         IN  d[k] + dict_sum(d, S \ {k})

\* lines 288-294
unk_size == IF DictHas(seg_sizes, "unk") THEN seg_sizes["unk"] ELSE 0
rest_size == dict_sum(seg_sizes, (DOMAIN seg_sizes) \ {"unk"})
total_size == RomSize

\* line 296: assert(unk_size + rest_size == total_size) passes
StatisticsOk ==
    /\ pc = "stats"
    /\ unk_size + rest_size = total_size
    /\ pc' = "save"
    /\ UNCHANGED <<cfgvars, filevars, runvars, i, j, ran_segments, ld_sections,
                   seen_segment_names, accvars, statvars, cache, fate,
                   cache_calls, postsplit_calls, written, ld_bare, prev, ldvars, fmtvars>>

\* line 296: the assertion fails and the run ends in AssertionError
StatisticsAssertFail ==
    /\ pc = "stats"
    /\ unk_size + rest_size # total_size
    /\ pc' = "crashed"
    /\ UNCHANGED <<cfgvars, filevars, runvars, i, j, ran_segments, ld_sections,
                   seen_segment_names, accvars, statvars, cache, fate,
                   cache_calls, postsplit_calls, written, ld_bare, prev, ldvars, fmtvars>>

\* the cache is saved only when the run changed it
needs_save_when_changed == cache # loaded_cache

\* line 310: cache != {}
needs_save == DOMAIN cache # {}

\* lines 309-314
SaveCache ==
    /\ pc = "save"
    /\ store' = IF needs_save THEN [present |-> TRUE, map |-> cache] ELSE store
    /\ written' = IF needs_save THEN written \cup {"cache"} ELSE written
    /\ pc' = "done"
    /\ UNCHANGED <<cfgvars, ld_file, funcs_file, syms_file, runvars, i, j,
                   ran_segments, ld_sections, seen_segment_names, accvars,
                   statvars, cache, fate, cache_calls, postsplit_calls,
                   ld_bare, prev, ldvars, fmtvars>>

Next ==
    \/ \E m \in ModeSets, ic \in BOOLEAN, t \in 0..MaxSegs,
          drop \in BOOLEAN, es \in ExtStatuses : StartRun(m, ic, t, drop, es)
    \/ LoopSentinel
    \/ LoopKindError
    \/ LoopExtCrash
    \/ LoopDuplicate
    \/ LoopModeSkip
    \/ LoopCacheHit
    \/ LoopExtract
    \/ PostSplit
    \/ \E bare \in LdBareOptions : WriteOutputs(bare)
    \/ StatisticsOk
    \/ StatisticsAssertFail
    \/ SaveCache

Spec == Init /\ [][Next]_vars

(* ------------------- write_ldscript on its own ------------------------ *)

InitLd ==
    /\ segs = [k \in 1..MaxSegs |->
                 [type |-> "bin", name |-> NameTable[1], dflt |-> FALSE,
                  len |-> 0, defs |-> {}, calls |-> {}]]
    /\ c_funcs = EmptyDict
    /\ ext_status = "nodir"
    /\ Idle

\* one more descriptor joins the list
LdAppend(d) ==
    /\ Len(ld_in) < MaxSections
    /\ ld_in' = Append(ld_in, d)
    /\ ld_out' = NoFile
    /\ UNCHANGED <<cfgvars, filevars, runvars, pc, i, j, ran_segments,
                   ld_sections, seen_segment_names, accvars, statvars, cache,
                   fate, cache_calls, postsplit_calls, written, ld_bare, prev,
                   fmtvars>>

\* write_ldscript(rom_name, repo_path, ld_in, bare)
LdRender(bare) ==
    /\ ld_out' = [present |-> TRUE, text |-> write_ldscript(ld_in, bare)]
    /\ ld_bare' = bare
    /\ UNCHANGED <<cfgvars, filevars, runvars, pc, i, j, ran_segments,
                   ld_sections, seen_segment_names, accvars, statvars, cache,
                   fate, cache_calls, postsplit_calls, written, prev, ld_in,
                   fmtvars>>

NextLd ==
    \/ \E d \in Descriptors : LdAppend(d)
    \/ \E bare \in BOOLEAN : LdRender(bare)

SpecLd == InitLd /\ [][NextLd]_vars

(* ------------- the unresolved-function line on its own ---------------- *)

\* the characters after the last underscore that a name is built up to
MaxDigits == 8

US == "_"
HexChars == {"8", "b"}

\* what precedes the last underscore of the names: func, my_func, f_8b
NamePrefixes ==
    {<<"f", "u", "n", "c">>,
     <<"m", "y", US, "f", "u", "n", "c">>,
     <<"f", US, "8", "b">>}

\* s.split("_")
RECURSIVE split_us(_)
split_us(s) ==
    IF \A k \in DOMAIN s : s[k] # US THEN <<s>>
    ELSE LET p == CHOOSE k \in DOMAIN s :
                      s[k] = US /\ \A m \in 1..(k - 1) : s[m] # US
         IN  <<SubSeq(s, 1, p - 1)>> \o split_us(SubSeq(s, p + 1, Len(s)))

\* s[:8]
take8(s) == IF Len(s) <= 8 THEN s ELSE SubSeq(s, 1, 8)

\* s.upper()
upper_char(c) ==
    CASE c = "b" -> "B" [] c = "f" -> "F" [] c = "u" -> "U"
      [] c = "n" -> "N" [] c = "c" -> "C" [] c = "m" -> "M"
      [] c = "y" -> "Y" [] OTHER -> c
upper(s) == [k \in DOMAIN s |-> upper_char(s[k])]

\* fs[-1]
fields_last(fs) == fs[Len(fs)]

\* line 278: line.split("_")[1][:8].upper(); [1] is the second field
address_of(name) == upper(take8(split_us(name)[2]))

\* line 278: line + " = 0x" + ... + ";\n"
format_line(name) ==
    name \o <<SP, "=", SP, "0", "x">> \o address_of(name) \o <<";", NL>>

\* the number of characters after the last underscore of the name
digits_of(name) == Len(fields_last(split_us(name)))

InitFmt ==
    /\ segs = [k \in 1..MaxSegs |->
                 [type |-> "bin", name |-> NameTable[1], dflt |-> FALSE,
                  len |-> 0, defs |-> {}, calls |-> {}]]
    /\ c_funcs = EmptyDict
    /\ ext_status = "nodir"
    /\ Idle

\* a name starts: what precedes its last underscore, and the underscore
FmtPrefix(p) ==
    /\ name_in = <<>>
    /\ name_in' = p \o <<US>>
    /\ line_out' = NoFile
    /\ UNCHANGED <<cfgvars, filevars, runvars, pc, i, j, ran_segments,
                   ld_sections, seen_segment_names, accvars, statvars, cache,
                   fate, cache_calls, postsplit_calls, written, ld_bare, prev,
                   ldvars>>

\* one more hex digit joins the name
FmtAppendDigit(d) ==
    /\ name_in # <<>>
    /\ digits_of(name_in) < MaxDigits
    /\ name_in' = Append(name_in, d)
    /\ line_out' = NoFile
    /\ UNCHANGED <<cfgvars, filevars, runvars, pc, i, j, ran_segments,
                   ld_sections, seen_segment_names, accvars, statvars, cache,
                   fate, cache_calls, postsplit_calls, written, ld_bare, prev,
                   ldvars>>

\* line 278 for the name
FmtWrite ==
    /\ name_in # <<>>
    /\ line_out' = [present |-> TRUE, text |-> format_line(name_in)]
    /\ UNCHANGED <<cfgvars, filevars, runvars, pc, i, j, ran_segments,
                   ld_sections, seen_segment_names, accvars, statvars, cache,
                   fate, cache_calls, postsplit_calls, written, ld_bare, prev,
                   ldvars, name_in>>

NextFmt ==
    \/ \E p \in NamePrefixes : FmtPrefix(p)
    \/ \E d \in HexChars : FmtAppendDigit(d)
    \/ FmtWrite

SpecFmt == InitFmt /\ [][NextFmt]_vars

(* ============================== claims ================================ *)

Range(s) == {s[k] : k \in DOMAIN s}

\* the loop of the current run has gone through every declaration
LoopOver == pc \in {"post", "stats", "save", "done"}

\* region k was handed to postsplit, as the receiver or in the list
posted(k) ==
    \E c \in Range(postsplit_calls) : c.seg = k \/ k \in Range(c.arg)

\* no two regions share an identity
DistinctIdentities ==
    \A a, b \in 1..NumSegs : a # b => unique_id(a) # unique_id(b)

\* the regions of bucket tp whose should_run() is true
RunnableIn(tp) == {k \in 1..NumSegs : bucket(k) = tp /\ should_run(k)}

(* ------------------------------- C1 ----------------------------------- *)

\* the run before this one completed and wrote the cache, this run does not
\* ignore the cache, the declarations and the extension directory are the
\* ones of the run before, and every region has the identity and the
\* fingerprint it had in the run before
C1_Rerun ==
    /\ run >= 2
    /\ ~ignore_cache
    /\ prev.outcome = "done"
    /\ prev.wrote_cache
    /\ prev.segs = segs
    /\ prev.ext_status = ext_status
    /\ prev.stamp = stamp
    /\ DistinctIdentities

\* nothing is extracted; every runnable region the loop has passed was a
\* cache hit, and once the loop is over every runnable region is counted
\* as cached in its bucket
C1_AllCached ==
    /\ ran_segments = <<>>
    /\ \A k \in 1..NumSegs :
         /\ fate[k] # "extracted"
         /\ (fate[k] # "pending" /\ should_run(k)) => fate[k] = "hit"
    /\ LoopOver =>
         /\ \A k \in 1..NumSegs : should_run(k) => fate[k] = "hit"
         /\ \A tp \in DOMAIN seg_cached :
              /\ seg_cached[tp] = Cardinality(RunnableIn(tp))
              /\ seg_split[tp] = 0

\* C1 as stated: a second run on the same declarations and fingerprints,
\* cache not ignored, extracts no region and takes every runnable region
\* down the cache-hit path.
C1_RerunExtractsNothing == C1_Rerun => C1_AllCached

\* C1 amended: a second run on the same declarations and fingerprints AND
\* with the same mode filter as the first, cache not ignored, extracts no
\* region; every region whose should_run is true is a cache hit and is
\* counted as cached.
C1_RerunSameModesExtractsNothing ==
    (C1_Rerun /\ modes = prev.modes) => C1_AllCached

\* a completed second run with the first run's modes in which a region was
\* a cache hit
C1_Witness ==
    /\ C1_Rerun
    /\ modes = prev.modes
    /\ pc = "done"
    /\ \E k \in 1..NumSegs : fate[k] = "hit"

(* ------------------------------- C2 ----------------------------------- *)

\* the loop is at region k, which passed validation, should run, is not
\* forced, and whose stored fingerprint equals the fresh one
C2_Unchanged(k) ==
    /\ Accepted(k)
    /\ should_run(k)
    /\ ~ignore_cache
    /\ DictHas(cache, unique_id(k))
    /\ cache[unique_id(k)] = fingerprint(k)

\* the step the loop takes there skips the region
C2_SkipStep(k) ==
    C2_Unchanged(k) =>
        /\ fate'[k] = "hit"
        /\ ran_segments' = ran_segments
        /\ cache' = cache
        /\ ld_sections' = ld_sections
        /\ postsplit_calls' = postsplit_calls
        /\ UNCHANGED accvars

\* a region that was a cache hit is not in the list of regions that ran,
\* is not post-processed, and its descriptor is not in the section list
C2_StaysSkipped(k) ==
    fate[k] = "hit" =>
        /\ k \notin Range(ran_segments)
        /\ ~posted(k)
        /\ get_ld_section(k) \notin Range(ld_sections)

\* C2: a runnable region whose stored fingerprint equals the fresh one, the
\* force flag not set, is skipped completely: it is not extracted, never in
\* the list handed to post-processing and never post-processed, the cache
\* map is not modified, and its descriptor is not added to the section list.
C2_CacheHitSkipsRegion ==
    [][\A k \in 1..MaxSegs : C2_SkipStep(k) /\ C2_StaysSkipped(k)']_vars

\* a completed run with a cache hit beside a region that was extracted and
\* post-processed
C2_Witness ==
    /\ pc = "done"
    /\ \E k \in 1..NumSegs : fate[k] = "hit"
    /\ postsplit_calls # <<>>

(* ------------------------------- C3 ----------------------------------- *)

\* the descriptors of the regions among 1..n that the loop let through to
\* line 261, in declaration order
RECURSIVE collected(_)
collected(n) ==
    IF n = 0 THEN <<>>
    ELSE IF fate[n] \in {"modeskip", "extracted"}
         THEN Append(collected(n - 1), get_ld_section(n))
         ELSE collected(n - 1)

\* the step the loop takes at a validated region whose should_run is false
C3_ExcludedStep(k) ==
    (Accepted(k) /\ ~should_run(k)) =>
        /\ fate'[k] = "modeskip"
        /\ cache' = cache
        /\ cache_calls' = cache_calls
        /\ ran_segments' = ran_segments
        /\ postsplit_calls' = postsplit_calls
        /\ ld_sections' = Append(ld_sections, get_ld_section(k))
        /\ UNCHANGED accvars

\* a region excluded by the mode filter never had cache() called, is not
\* among the regions that ran, is not post-processed, and its descriptor is
\* in the section list at its place in declaration order
C3_StaysExcluded(k) ==
    fate[k] = "modeskip" =>
        /\ k \notin cache_calls
        /\ k \notin Range(ran_segments)
        /\ ~posted(k)
        /\ ld_sections = collected(NumSegs)

\* C3: a region whose should_run is false has no fingerprint computed or
\* compared, leaves the cache map alone, is neither extracted nor
\* post-processed, and its descriptor is appended to the section list at its
\* position in declaration order.
C3_ModeExcludedStillCollected ==
    [][\A k \in 1..MaxSegs : C3_ExcludedStep(k) /\ C3_StaysExcluded(k)']_vars

\* a completed run in which a mode-excluded region follows an extracted one
C3_Witness ==
    /\ pc = "done"
    /\ \E a, b \in 1..NumSegs :
         a < b /\ fate[a] = "extracted" /\ fate[b] = "modeskip"
    /\ Len(ld_sections) = 2

(* --------------------------- C4, C5, C6 ------------------------------- *)

\* the exports of the current run have been written
ExportDone == pc \in {"stats", "save", "done"}

\* the names the current run wrote to undefined_funcs_auto.txt
exported == IF "funcs" \in written THEN Range(funcs_file.text) ELSE {}

\* region k is a code region that was extracted in the current run
extracted_code(k) == fate[k] = "extracted" /\ segs[k].type = "code"

\* n is requested by extracted code region a and emitted by extracted code
\* region b
RequestedAndDefined(n, a, b) ==
    /\ extracted_code(a)
    /\ extracted_code(b)
    /\ n \in segs[a].calls
    /\ n \in segs[b].defs

\* C4: a function name requested by an extracted code region and emitted by
\* a code region declared later and extracted in the same run is not
\* written to the unresolved-function export of the run.
C4_DefinedLaterNotExported ==
    ExportDone =>
        \A a, b \in 1..NumSegs, n \in FuncNames :
            (a < b /\ RequestedAndDefined(n, a, b)) => n \notin exported

\* a completed run in which the first code region requests a name that the
\* second one emits
C4_Witness ==
    /\ pc = "done"
    /\ \E a, b \in 1..NumSegs, n \in FuncNames :
         a < b /\ RequestedAndDefined(n, a, b)

\* C5 as stated: a function name requested by an extracted code region and
\* emitted by a code region declared EARLIER and extracted in the same run
\* is still written to the unresolved-function export.
C5_DefinedEarlierStillExported ==
    ExportDone =>
        \A a, b \in 1..NumSegs, n \in FuncNames :
            (b < a /\ RequestedAndDefined(n, a, b)) => n \in exported

\* C5 amended: such a name is NOT written to the export: the export
\* subtracts the whole accumulated defined set, whatever the declaration
\* order of the requesting and the defining region.
C5_DefinedEarlierNotExported ==
    ExportDone =>
        \A a, b \in 1..NumSegs, n \in FuncNames :
            (b < a /\ RequestedAndDefined(n, a, b)) => n \notin exported

\* a completed run in which the second code region requests a name that the
\* first one emits
C5_Witness ==
    /\ pc = "done"
    /\ \E a, b \in 1..NumSegs, n \in FuncNames :
         b < a /\ RequestedAndDefined(n, a, b)

\* the names of the manually declared functions
declared_names == Range(c_funcs)

\* C6: the names written to the unresolved-function export are exactly the
\* requested names that are neither the name of a manually declared
\* function nor in the accumulated defined set.
C6_ExportIsRequestedMinusKnown ==
    ExportDone =>
        exported = {n \in undefined_funcs :
                        n \notin declared_names /\ n \notin defined_funcs}

(* ------------------------------- C7 ----------------------------------- *)

\* the loop is at region k, whose class was found and requires a unique
\* name, and an earlier region of such a kind has the same name
C7_Duplicate(k) ==
    /\ AtRegion(k)
    /\ resolved(k)
    /\ require_unique_name(segs[k].type)
    /\ \E a \in 1..(k - 1) :
         require_unique_name(segs[a].type) /\ segs[a].name = segs[k].name

\* the run aborts there, with nothing done for region k
C7_AbortStep(k) ==
    C7_Duplicate(k) =>
        /\ pc' = "aborted"
        /\ fate'[k] = "duplicate"
        /\ cache_calls' = cache_calls
        /\ cache' = cache
        /\ ran_segments' = ran_segments
        /\ UNCHANGED <<statvars, ld_sections, accvars, seen_segment_names,
                       filevars>>

\* and a region whose class was found aborts the run in no other case
C7_NoOtherAbort(k) ==
    (AtRegion(k) /\ resolved(k) /\ ~C7_Duplicate(k)) => pc' # "aborted"

\* C7: the run aborts at a region of a kind requiring a unique name whose
\* name an earlier region of such a kind has, before the region is
\* validated, cache-checked or extracted; equal names among regions of
\* kinds that do not require uniqueness never abort the run.
C7_DuplicateUniqueNameAborts ==
    [][\A k \in 1..MaxSegs : C7_AbortStep(k) /\ C7_NoOtherAbort(k)]_vars

\* the run aborted on the duplicate name of its second region
C7_Witness ==
    /\ pc = "aborted"
    /\ \E k \in 2..NumSegs : fate[k] = "duplicate" /\ fate[k - 1] = "extracted"

(* ------------------------------- C9 ----------------------------------- *)

\* sum of the lengths of the regions in S
RECURSIVE length_sum(_)
length_sum(S) ==
    IF S = {} THEN 0
    ELSE LET k == CHOOSE x \in S : TRUE
         IN  segs[k].len + length_sum(S \ {k})

\* the region lengths add up to the length of the binary
CoversRom == length_sum(1..NumSegs) = RomSize

\* every declaration went through the loop
LoopCompleted ==
    /\ pc \notin {"idle", "loop", "aborted"}
    /\ \A k \in 1..NumSegs : fate[k] \in {"modeskip", "hit", "extracted"}

\* the bucket a region is counted in: "unk" for a generic binary region
\* with a synthesized name, its kind otherwise
C9_Bucket(k) ==
    IF segs[k].type = "bin" /\ segs[k].dflt THEN "unk" ELSE segs[k].type

\* C9: when the loop has completed, every region's length has been added
\* once to the one bucket of the region (the unknown bucket for a generic
\* binary region with a synthesized name), whatever the loop did with the
\* region; so for region lengths that add up to the binary's length the
\* unknown bytes plus the other buckets' bytes equal the total and the
\* assertion does not fail.
C9_BucketsPartitionRom ==
    LoopCompleted =>
        /\ DOMAIN seg_sizes = {C9_Bucket(k) : k \in 1..NumSegs}
        /\ \A tp \in DOMAIN seg_sizes :
             seg_sizes[tp] =
                 length_sum({k \in 1..NumSegs : C9_Bucket(k) = tp})
        /\ CoversRom => (unk_size + rest_size = total_size /\ pc # "crashed")

\* a completed run over a covering declaration list with a cache hit of
\* non-zero length and a mode-excluded region in the unknown bucket
C9_Witness ==
    /\ pc = "done"
    /\ CoversRom
    /\ \E a, b \in 1..NumSegs :
         /\ fate[a] = "hit" /\ segs[a].len > 0
         /\ fate[b] = "modeskip" /\ C9_Bucket(b) = "unk"

(* ------------------------------- C10 ---------------------------------- *)

\* a fingerprint was changed or added during the run
CacheChanged == cache # loaded_cache

\* C10 as stated: a completed run rewrites the cache store if and only if a
\* fingerprint was changed or newly added during the run.
C10_StoreWrittenIffChanged ==
    pc = "done" => (("cache" \in written) <=> CacheChanged)

\* C10 amended: a completed run rewrites the cache store if and only if the
\* cache map is not empty at run end: always when a fingerprint was changed
\* or added, and also when nothing changed against a non-empty loaded
\* cache (the store is then rewritten with the map it already held).
C10_StoreWrittenIffNonEmpty ==
    pc = "done" =>
        /\ ("cache" \in written) <=> (DOMAIN cache # {})
        /\ CacheChanged => "cache" \in written
        /\ "cache" \in written => store = [present |-> TRUE, map |-> cache]
        /\ "cache" \notin written => ~store.present

\* a completed run of cache hits only that rewrote an unchanged cache
C10_Witness ==
    /\ pc = "done"
    /\ "cache" \in written
    /\ ~CacheChanged
    /\ \A k \in 1..NumSegs : fate[k] = "hit"

(* ------------------------------- C8 ----------------------------------- *)

\* the default-mode rendering as C8 describes it: the opening of the
\* block, then every descriptor indented by four spaces, embedded newlines
\* followed by four spaces, on a line of its own, then the closing
RECURSIVE C8_IndentedLines(_)
C8_IndentedLines(sections) ==
    IF sections = <<>> THEN <<>>
    ELSE Indent4 \o replace_nl(Head(sections)) \o <<NL>>
         \o C8_IndentedLines(Tail(sections))

C8_Claimed(sections, bare) ==
    IF bare
    THEN join(<<NL>>, sections)
    ELSE <<"S", "E", "C", "T", "I", "O", "N", "S", NL, "{", NL>>
         \o C8_IndentedLines(sections) \o <<"}", NL>>

\* the three single-line descriptors A, B, C
C8_ABC == << <<"A">>, <<"B">>, <<"C">> >>

\* C8: rendering a descriptor list gives, in bare mode, the descriptors
\* joined by a newline and, in default mode, "SECTIONS\n{\n", every
\* descriptor (the last included) indented by four spaces on its own line,
\* then "}\n"; stated here for the claim's own example: A, B, C render as
\* "A\nB\nC" in bare mode and "SECTIONS\n{\n    A\n    B\n    C\n}\n" in
\* default mode.
C8_ThreeDescriptorsRendering ==
    (ld_out.present /\ ld_in = C8_ABC) =>
        /\ ld_out.text = C8_Claimed(ld_in, ld_bare)
        /\ ld_bare => ld_out.text = <<"A", NL, "B", NL, "C">>
        /\ ~ld_bare =>
             ld_out.text =
                 <<"S", "E", "C", "T", "I", "O", "N", "S", NL, "{", NL,
                   SP, SP, SP, SP, "A", NL,
                   SP, SP, SP, SP, "B", NL,
                   SP, SP, SP, SP, "C", NL,
                   "}", NL>>

(* ------------------------------- C11 ---------------------------------- *)

\* the run is under way or has ended without reaching the cache save
BeforeSave == pc \in {"loop", "post", "stats", "save", "aborted", "crashed"}

\* the run ended in exit(1): unresolvable kind or duplicate name
FatalAbort ==
    /\ pc = "aborted"
    /\ \E k \in 1..NumSegs : fate[k] \in {"nokind", "duplicate"}

\* C11: a run that aborts on a fatal error (unresolvable kind, duplicate
\* name where uniqueness is required) leaves the persisted cache store
\* exactly as it was at run start, whatever was extracted and stored in the
\* in-memory map before; the store is written by no step other than the
\* one after the loop, post-processing and the statistics check.
C11_AbortLeavesStore ==
    [][/\ FatalAbort' => (store' = prev'.store /\ "cache" \notin written')
       /\ BeforeSave' => store' = prev'.store
       /\ store' # store =>
            (pc = "save" /\ pc' = "done" /\ LoopOver
             /\ Len(postsplit_calls) = Len(ran_segments))]_vars

\* a run that found a stored cache, extracted a region and updated its
\* fingerprint in memory, and then aborted
C11_Witness ==
    /\ FatalAbort
    /\ prev.store.present
    /\ cache # loaded_cache
    /\ \E k \in 1..NumSegs : fate[k] = "extracted"

\* the same for a duplicate name, on a tree without a stored cache
C11_WitnessDuplicate ==
    /\ FatalAbort
    /\ cache # loaded_cache
    /\ \E k \in 1..NumSegs : fate[k] = "duplicate"

(* ------------------------------- C12 ---------------------------------- *)

\* the regions among 1..n that were extracted, in declaration order
RECURSIVE extracted_upto(_)
extracted_upto(n) ==
    IF n = 0 THEN <<>>
    ELSE IF fate[n] = "extracted" THEN Append(extracted_upto(n - 1), n)
         ELSE extracted_upto(n - 1)

\* C12: the regions that ran are the extracted regions in declaration
\* order; nothing is post-processed before every declaration has passed
\* through the extraction loop; post-processing is called once per
\* extracted region, in declaration order, for no other region, and every
\* call is handed the same complete list of extracted regions.
C12_PassesInDeclarationOrder ==
    /\ ran_segments = extracted_upto(NumSegs)
    /\ \A k \in 1..NumSegs :
         (pc = "loop" /\ k >= i) => fate[k] = "pending"
    /\ postsplit_calls # <<>> =>
         /\ pc \notin {"idle", "loop", "aborted"}
         /\ \A k \in 1..NumSegs : fate[k] \in {"modeskip", "hit", "extracted"}
    /\ Len(postsplit_calls) <= Len(ran_segments)
    /\ \A n \in DOMAIN postsplit_calls :
         /\ postsplit_calls[n].seg = extracted_upto(NumSegs)[n]
         /\ postsplit_calls[n].arg = extracted_upto(NumSegs)
    /\ pc \in {"stats", "save", "done"} =>
         Len(postsplit_calls) = Len(extracted_upto(NumSegs))

\* a completed run that extracted and post-processed two regions
C12_Witness ==
    /\ pc = "done"
    /\ Len(postsplit_calls) = 2
    /\ postsplit_calls[1].seg = 1
    /\ postsplit_calls[2].seg = 2

\* a completed run that post-processed the second region only
C12_WitnessSkipped ==
    /\ pc = "done"
    /\ Len(postsplit_calls) = 1
    /\ postsplit_calls[1].seg = 2
    /\ fate[1] = "hit"

(* ------------------------------- C13 ---------------------------------- *)

\* the names emitted by the code regions declared before k that were
\* extracted in the current run
emitted_before(k) ==
    UNION {segs[a].defs : a \in {b \in 1..(k - 1) : extracted_code(b)}}

\* the loop extracts code region k in this step
C13_ExtractsCode(k) ==
    Accepted(k) /\ is_code(k) /\ should_run(k) /\ ~is_cached(k)

\* the set the next region of the loop reads is what the earlier extracted
\* code regions emitted
C13_NextReads == all_functions = emitted_before(i)

\* C13: when a code region is extracted, the defined set injected into it
\* (all_functions, the shared defined_funcs) is the union of the names
\* emitted by the code regions extracted earlier in declaration order, so
\* it holds no name emitted only by a later region; and the names the
\* region emits are in the set every later region of the pass reads.
C13_ForwardOnlyVisibility ==
    [][/\ \A k \in 1..MaxSegs :
            C13_ExtractsCode(k) =>
                /\ fate'[k] = "extracted"
                /\ all_functions = emitted_before(k)
                /\ \A b \in (k + 1)..NumSegs :
                     \A n \in segs[b].defs :
                        n \notin emitted_before(k) => n \notin all_functions
                /\ segs[k].defs \subseteq all_functions'
       /\ pc' = "loop" => C13_NextReads']_vars

\* the second code region is being extracted after the first one emitted
\* a name
C13_Witness ==
    /\ pc = "loop"
    /\ i = 3
    /\ extracted_code(1)
    /\ extracted_code(2)
    /\ segs[1].defs # {}
    /\ segs[1].defs \subseteq defined_funcs

\* the first code region was extracted without seeing the name that only
\* the second one emits
C13_WitnessLater ==
    /\ pc = "loop"
    /\ i = 2
    /\ extracted_code(1)
    /\ segs[1].defs = {}
    /\ NumSegs = 2
    /\ segs[2].type = "code"
    /\ segs[2].defs # {}
    /\ defined_funcs = {}

(* ------------------------------- C14 ---------------------------------- *)

\* the regions extracted in the current run whose identity is x
extracted_as(x) ==
    {k \in 1..NumSegs : fate[k] = "extracted" /\ unique_id(k) = x}

\* the last declared region of a non-empty set of regions
last_of(S) == CHOOSE k \in S : \A m \in S : m <= k

\* the identities of the regions declared in the current configuration
declared_ids == {unique_id(k) : k \in 1..NumSegs}

\* C14: the cache map never shrinks and is touched for extracted regions
\* only: every key of the loaded cache stays in the map; an entry whose
\* identity no region extracted in this run has keeps the loaded value
\* (entries of removed regions, and of mode-excluded and cache-hit
\* regions); an entry of an extracted region holds that region's fresh
\* fingerprint; and a completed run that loaded entries persists the map so
\* kept, which is what the next run loads.
C14_CacheNeverShrinks ==
    pc # "idle" =>
        /\ DOMAIN loaded_cache \subseteq DOMAIN cache
        /\ \A x \in DOMAIN cache :
             IF extracted_as(x) = {}
             THEN x \in DOMAIN loaded_cache /\ cache[x] = loaded_cache[x]
             ELSE cache[x] = fingerprint(last_of(extracted_as(x)))
        /\ (pc = "done" /\ DOMAIN loaded_cache # {}) =>
             (store.present /\ store.map = cache)
        /\ DistinctIdentities =>
             \A k \in 1..NumSegs :
                (fate[k] \in {"hit", "modeskip"}
                   /\ unique_id(k) \in DOMAIN loaded_cache)
                => cache[unique_id(k)] = loaded_cache[unique_id(k)]

\* a completed run that extracted a region and rewrote the store, which
\* still holds, with its old value, the entry of a region removed from the
\* configuration
C14_Witness ==
    /\ pc = "done"
    /\ "cache" \in written
    /\ \E k \in 1..NumSegs : fate[k] = "extracted"
    /\ \E x \in DOMAIN loaded_cache :
         /\ x \notin declared_ids
         /\ x \in DOMAIN store.map
         /\ store.map[x] = loaded_cache[x]

\* a completed run that left the entries of a cache-hit region and of a
\* mode-excluded region as they were stored
C14_WitnessSkipped ==
    /\ pc = "done"
    /\ DistinctIdentities
    /\ \E a, b \in 1..NumSegs :
         /\ fate[a] = "hit"
         /\ fate[b] = "modeskip"
         /\ unique_id(b) \in DOMAIN loaded_cache
         /\ store.map[unique_id(b)] = loaded_cache[unique_id(b)]

(* ------------------------------- C15 ---------------------------------- *)

\* the current run is forced, follows the first run, and has the first
\* run's inputs: declarations, extension directory, fingerprints and mode
\* filter
C15_ForcedRerun ==
    /\ run >= 2
    /\ ignore_cache
    /\ prev.run = 1
    /\ prev.segs = segs
    /\ prev.ext_status = ext_status
    /\ prev.stamp = stamp
    /\ prev.modes = modes

\* the run has ended as the run before it did: the same regions extracted
\* in the same order, the same accumulators, the same section list
C15_SameAsFirst ==
    Ended =>
        /\ pc = prev.outcome
        /\ ran_segments = prev.ran_segments
        /\ defined_funcs = prev.defined_funcs
        /\ undefined_funcs = prev.undefined_funcs
        /\ undefined_syms = prev.undefined_syms
        /\ ld_sections = prev.ld_sections

\* with the force flag set, the step at a validated region whose
\* should_run is true extracts it and stores its fresh fingerprint
C15_ForcedStep(k) ==
    (Accepted(k) /\ should_run(k) /\ ignore_cache) =>
        /\ fate'[k] = "extracted"
        /\ ran_segments' = Append(ran_segments, k)
        /\ DictHas(cache', unique_id(k))
        /\ cache'[unique_id(k)] = fingerprint(k)

\* C15 as stated: with the force flag set every region whose should_run is
\* true is extracted and its fresh fingerprint stored whatever the cache
\* holds, and a forced run on the inputs of the first run extracts the
\* regions the first run extracted, in the same order, with the same
\* accumulators and the same section list.
C15_ForcedRunRepeatsFirst ==
    [][/\ \A k \in 1..MaxSegs : C15_ForcedStep(k)
       /\ C15_ForcedRerun' => C15_SameAsFirst']_vars

\* C15 amended: the same, for regions with pairwise distinct identities:
\* with the force flag set every region whose should_run is true is
\* extracted and its fresh fingerprint stored whatever the cache holds,
\* and when no two regions share an identity a forced run on the inputs of
\* the first run repeats the first run's extractions, accumulators and
\* section list.
C15_ForcedRunRepeatsFirstDistinct ==
    [][/\ \A k \in 1..MaxSegs : C15_ForcedStep(k)
       /\ (C15_ForcedRerun' /\ DistinctIdentities') => C15_SameAsFirst']_vars

\* a completed forced run after the first run that extracted again a region
\* whose stored fingerprint equals the fresh one
C15_Witness ==
    /\ C15_ForcedRerun
    /\ DistinctIdentities
    /\ pc = "done"
    /\ \E k \in 1..NumSegs :
         /\ fate[k] = "extracted"
         /\ DictHas(loaded_cache, unique_id(k))
         /\ loaded_cache[unique_id(k)] = fingerprint(k)
    /\ \E k \in 1..NumSegs : segs[k].type = "code" /\ fate[k] = "extracted"

(* ------------------------------- C16 ---------------------------------- *)

\* nothing was done for the region the loop is at: it was not constructed,
\* named, counted, cache-checked or extracted
C16_NotConstructed ==
    /\ UNCHANGED <<seen_segment_names, statvars, cache, cache_calls,
                   ran_segments, ld_sections, accvars, filevars>>

\* the step of the loop at declaration k resolves the kind as C16 says
C16_ResolutionStep(k) ==
    AtRegion(k) =>
        /\ segs[k].type \in BuiltinKinds =>
             fate'[k] \notin {"nokind", "crash"}
        /\ (segs[k].type \notin BuiltinKinds /\ ext_status = "ok") =>
             fate'[k] \notin {"nokind", "crash"}
        /\ (segs[k].type \notin BuiltinKinds /\ ext_status # "ok") =>
             /\ pc' = "aborted"
             /\ fate'[k] = "nokind"
             /\ C16_NotConstructed

\* C16: kind resolution tries the built-in handlers first and the
\* extension directory second; when neither yields a handler the run
\* aborts with the fatal configuration error before the region is
\* constructed; and every failure of the extension lookup (no directory
\* configured, file missing, load raises, module loads but does not define
\* the handler) ends in "not found" and that fatal error, never in an
\* unhandled crash.
C16_LookupFailureIsNotFound ==
    [][\A k \in 1..MaxSegs : C16_ResolutionStep(k)]_vars

(* ------------------------------- C17 ---------------------------------- *)

\* the regions of bucket tp the loop of the current run left with fate f
InBucket(tp, f) == {k \in 1..NumSegs : C9_Bucket(k) = tp /\ fate[k] = f}

\* C17 as stated: when the loop has completed, every bucket's 'extracted
\* this run' counter is the sum of the byte lengths of the bucket's regions
\* extracted in this run, and its 'skipped via cache' counter the sum of
\* the byte lengths of the bucket's cache hits.
C17_CountersAreByteSums ==
    LoopCompleted =>
        \A tp \in DOMAIN seg_sizes :
            /\ seg_split[tp] = length_sum(InBucket(tp, "extracted"))
            /\ seg_cached[tp] = length_sum(InBucket(tp, "hit"))

\* C17 amended: the two counters count regions, not bytes: when the loop
\* has completed, every bucket's 'extracted this run' counter is the number
\* of the bucket's regions extracted in this run and its 'skipped via
\* cache' counter the number of the bucket's cache hits; only the total
\* counter is a byte sum.
C17_CountersAreRegionCounts ==
    LoopCompleted =>
        /\ DOMAIN seg_split = DOMAIN seg_sizes
        /\ DOMAIN seg_cached = DOMAIN seg_sizes
        /\ \A tp \in DOMAIN seg_sizes :
             /\ seg_split[tp] = Cardinality(InBucket(tp, "extracted"))
             /\ seg_cached[tp] = Cardinality(InBucket(tp, "hit"))
             /\ seg_sizes[tp] =
                    length_sum({k \in 1..NumSegs : C9_Bucket(k) = tp})

\* a completed run with an extracted region and a cache hit in one bucket
C17_Witness ==
    /\ pc = "done"
    /\ \E tp \in DOMAIN seg_sizes :
         /\ InBucket(tp, "extracted") # {}
         /\ InBucket(tp, "hit") # {}

(* ------------------------------- C20 ---------------------------------- *)

\* the regions of the bucket the report calls tp whose should_run is true
C20_Runnable(tp) == {k \in 1..NumSegs : C9_Bucket(k) = tp /\ should_run(k)}

\* C20: when the loop has completed, in every bucket the number counted as
\* split plus the number counted as cached is the number of the bucket's
\* regions whose should_run is true; each of these is counted in exactly
\* one of the two (split when extracted, cached when a cache hit), and a
\* region whose should_run is false is counted in neither.
C20_SplitPlusCachedIsRunnable ==
    LoopCompleted =>
        \A tp \in DOMAIN seg_sizes :
            /\ seg_split[tp] + seg_cached[tp] = Cardinality(C20_Runnable(tp))
            /\ \A k \in C20_Runnable(tp) : fate[k] \in {"extracted", "hit"}
            /\ seg_split[tp] =
                   Cardinality({k \in C20_Runnable(tp) : fate[k] = "extracted"})
            /\ seg_cached[tp] =
                   Cardinality({k \in C20_Runnable(tp) : fate[k] = "hit"})
            /\ \A k \in 1..NumSegs :
                 (C9_Bucket(k) = tp /\ ~should_run(k)) =>
                    fate[k] = "modeskip"

\* a completed run with a bucket of one extracted region and one cache hit
C20_Witness ==
    /\ pc = "done"
    /\ \E tp \in DOMAIN seg_sizes :
         seg_split[tp] = 1 /\ seg_cached[tp] = 1

\* a completed run with a bucket whose region the mode filter excludes,
\* counted neither as split nor as cached, beside a bucket that ran
C20_WitnessExcluded ==
    /\ pc = "done"
    /\ \E tp, tq \in DOMAIN seg_sizes :
         /\ C20_Runnable(tp) = {}
         /\ seg_split[tp] = 0
         /\ seg_cached[tp] = 0
         /\ seg_split[tq] + seg_cached[tq] = 1

(* ------------------------------- C18 ---------------------------------- *)

\* the name ends in an underscore followed by 8 hex digits
C18_EndsInAddress(name) ==
    /\ Len(name) >= 9
    /\ name[Len(name) - 8] = US
    /\ \A k \in (Len(name) - 7)..Len(name) : name[k] \in HexChars

\* the trailing 8 hex digits of the name, letters in upper case
C18_Trailing8(name) == upper(SubSeq(name, Len(name) - 7, Len(name)))

\* C18: for every name that ends in an underscore followed by 8 hex
\* digits, names with more than one underscore included, the line written
\* to the unresolved-function export is the name, " = 0x", the name's
\* trailing 8 hex digits (letters in upper case) and ";".
C18_AddressIsTrailingDigits ==
    (line_out.present /\ C18_EndsInAddress(name_in)) =>
        line_out.text =
            name_in \o <<SP, "=", SP, "0", "x">> \o C18_Trailing8(name_in)
                    \o <<";", NL>>

\* the same for the names with one underscore only
C18_SingleUnderscore ==
    (line_out.present /\ C18_EndsInAddress(name_in)
       /\ Len(split_us(name_in)) = 2) =>
        line_out.text =
            name_in \o <<SP, "=", SP, "0", "x">> \o C18_Trailing8(name_in)
                    \o <<";", NL>>

(* ------------------------------- C19 ---------------------------------- *)

\* the code regions extracted in the current run
ExtractedCode == {k \in 1..NumSegs : extracted_code(k)}

\* n is emitted by no code region extracted in the current run
C19_NotDefinedThisRun(n) == \A b \in ExtractedCode : n \notin segs[b].defs

\* C19: the symbol accumulators are fed by the regions extracted in this
\* run only: the defined set is the union of the names the extracted code
\* regions emit and the two requested sets are the unions of what they
\* request, a cache-skipped or mode-excluded code region adding nothing;
\* so a name requested by an extracted region and emitted only by regions
\* that were not extracted (a cache hit, say) is written to the
\* unresolved-function export.
C19_AccumulatorsFromExtractedOnly ==
    pc # "idle" =>
        /\ defined_funcs = UNION {segs[k].defs : k \in ExtractedCode}
        /\ undefined_funcs = UNION {segs[k].calls : k \in ExtractedCode}
        /\ undefined_syms =
               UNION {undefined_syms_to_add(k) : k \in ExtractedCode}
        /\ ExportDone =>
             \A a \in ExtractedCode :
                \A n \in segs[a].calls :
                    C19_NotDefinedThisRun(n) => n \in exported

\* a completed cache-accelerated run on the declarations of a completed
\* full run: a name requested by an extracted region and emitted by a
\* cache-hit code region is exported, while the run before, which
\* extracted the emitting region, had it in its defined set
C19_Witness ==
    /\ pc = "done"
    /\ prev.outcome = "done"
    /\ prev.segs = segs
    /\ \E a, b \in 1..NumSegs, n \in FuncNames :
         /\ extracted_code(a)
         /\ n \in segs[a].calls
         /\ segs[b].type = "code"
         /\ fate[b] = "hit"
         /\ n \in segs[b].defs
         /\ n \in exported
         /\ n \in prev.defined_funcs
         /\ n \in prev.undefined_funcs

====
